---- MODULE Spec2Model ----
(***************************************************************************)
(* Model of cpp_extensions/text_chunking/text_chunker.cpp:                 *)
(*   split_text(text, chunk_size, chunk_overlap)                           *)
(*   split_text_with_word_count(text, chunk_size_words, chunk_overlap_words)*)
(*                                                                         *)
(* A text is a sequence of one-character strings.  Positions are 0-based  *)
(* as in the C++ code.  A size_t value is represented by the signed        *)
(* representative of its residue class modulo 2^64: a negative integer -k  *)
(* stands for 2^64 - k.  Integer addition is then exactly the wrapping     *)
(* size_t addition, and the unsigned order is SizeLess below.              *)
(***************************************************************************)
EXTENDS Integers, Sequences, FiniteSets, TLC

\* ---- bounds of the explored inputs ----
MaxLen == 6
MaxSize == 4
MaxSpin == 2
MaxWordLen == 4
MaxWords == 2

\* ---- program constants ----
SampleSize == 500
DefaultWordLength == 6

Chars == {"a", "b", "\n"}
WordChars == {"a", " ", "\n"}

double_newline == <<"\n", "\n">>
single_newline == <<"\n">>

npos == -1

VARIABLES
    text,                \* the argument text
    chunk_size,          \* argument of split_text (int)
    chunk_overlap,       \* argument of split_text (int)
    chunk_size_words,    \* argument of split_text_with_word_count
    chunk_overlap_words, \* argument of split_text_with_word_count
    pc,                  \* position in the function: "words_start", "start",
                         \* "split", "merge", "fallback_enter", "fallback",
                         \* and the ends "done" (return), "length_error"
                         \* (exception thrown by reserve), "sigfpe" (trap)
    tier,                \* "para" (lines 42-89) or "line" (lines 91-139)
    splits,              \* the vector splits
    idx,                 \* position of the range-for loop in splits (1-based)
    current_chunk,       \* the buffer current_chunk
    chunks,              \* the vector chunks, the result at "done"
    i,                   \* index of the fallback loop (size_t)
    seeds,               \* history: for each push inside a merge loop, the
                         \* chunk pushed, what current_chunk was reset to and
                         \* the segment then appended
    tried,               \* history: for each tier left behind or returned
                         \* from, its segments and its number of chunks
    produced             \* history: which return delivered the result

vars == <<text, chunk_size, chunk_overlap, chunk_size_words, chunk_overlap_words,
          pc, tier, splits, idx, current_chunk, chunks, i,
          seeds, tried, produced>>

\* ---- helpers -----------------------------------------------------------

MinOf(S) == CHOOSE x \in S : \A y \in S : x <= y

Repeat(s, n) == [k \in 1..(n * Len(s)) |-> s[((k - 1) % Len(s)) + 1]]

TextsUpTo(alphabet, n) == UNION {[1..k -> alphabet] : k \in 0..n}

\* unsigned a < b on size_t values (negative representative = value near 2^64)
SizeLess(a, b) ==
    IF a >= 0 /\ b >= 0 THEN a < b
    ELSE IF a >= 0 THEN TRUE
    ELSE IF b >= 0 THEN FALSE
    ELSE a < b

SizeMin(a, b) == IF SizeLess(b, a) THEN b ELSE a

\* std::string::substr(pos, n): at most n characters starting at pos
Substr(s, pos, n) ==
    SubSeq(s, pos + 1, IF pos + n > Len(s) THEN Len(s) ELSE pos + n)

\* std::string::find(sep, start): first position >= start where sep occurs
Find(t, sep, start) ==
    LET cand == {p \in start..(Len(t) - Len(sep)) :
                    SubSeq(t, p + 1, p + Len(sep)) = sep}
    IN IF cand = {} THEN npos ELSE MinOf(cand)

Sep(t) == IF t = "para" THEN double_newline ELSE single_newline

\* the while loop that cuts the text at every occurrence of sep
RECURSIVE SplitLoop(_, _, _, _, _)
SplitLoop(t, sep, start_pos, acc, has) ==
    LET next_pos == Find(t, sep, start_pos)
    IN IF next_pos = npos
       THEN [splits |-> acc, start_pos |-> start_pos, has |-> has]
       ELSE SplitLoop(t, sep, next_pos + Len(sep),
                      Append(acc, Substr(t, start_pos, next_pos - start_pos)),
                      TRUE)

\* "Add the last piece": only when something is left after the last separator
LastPiece(t, r) ==
    IF r.has /\ r.start_pos < Len(t)
    THEN Append(r.splits, Substr(t, r.start_pos, Len(t) - r.start_pos))
    ELSE r.splits

SplitTier(t, sep) ==
    LET r == SplitLoop(t, sep, 0, <<>>, FALSE)
    IN [has |-> r.has, splits |-> LastPiece(t, r)]

\* variant: a text of exactly chunk_size characters is not short-circuited
ShortCircuit_Strict(t, cs) == SizeLess(Len(t), cs)

\* text.length() <= static_cast<size_t>(chunk_size)
ShortCircuit(t, cs) == ~SizeLess(cs, Len(t))

\* "Start new chunk if adding this split would exceed chunk_size"
NeedsFlush(cur, split, sep, cs) ==
    cur # <<>> /\ SizeLess(cs, Len(cur) + Len(split) + Len(sep))

\* variant: a chunk of exactly chunk_overlap characters is carried whole
Carry_AtLeast(cur, ov) ==
    IF ov > 0 /\ ~SizeLess(Len(cur), ov)
    THEN Substr(cur, Len(cur) - ov, Len(cur))
    ELSE <<>>

\* "Handle overlap": what current_chunk becomes right after it was pushed
Carry(cur, ov) ==
    IF ov > 0 /\ SizeLess(ov, Len(cur))
    THEN Substr(cur, Len(cur) - ov, Len(cur))
    ELSE <<>>

\* variant: the separator is not put back between buffer and segment
Extend_NoSeparator(cur, split, sep) ==
    IF cur = <<>> THEN split ELSE cur \o split

\* current_chunk = split, or current_chunk += separator + split
Extend(cur, split, sep) ==
    IF cur = <<>> THEN split ELSE cur \o sep \o split

\* variant: the last buffer is never pushed
FinalChunks_Dropped(chs, cur) == chs

\* "Add final chunk"
FinalChunks(chs, cur) == IF cur # <<>> THEN Append(chs, cur) ELSE chs

\* one window of the fixed-width fallback
FallbackEnd(pos, cs, t) == SizeMin(pos + cs, Len(t))

\* variant: the window advances by a whole chunk_size
FallbackStride_NoOverlap(cs, ov) == cs

\* chunk_size - chunk_overlap, the step of the window
FallbackStride(cs, ov) == cs - ov

\* the counting loop of split_text_with_word_count
IsSpace(c) == c \in {" ", "\n"}

\* body of the counting loop: st is the pair of locals in_word, word_count
CountStep(st, c) ==
    IF IsSpace(c) THEN [in_word |-> FALSE, word_count |-> st.word_count]
    ELSE IF ~st.in_word THEN [in_word |-> TRUE, word_count |-> st.word_count + 1]
    ELSE st

\* the loop over sample[lo..hi], left to right: the locals after the left
\* half are the locals the right half starts from (the range is halved so
\* that the evaluation depth stays logarithmic; the test on left only makes
\* the left half be evaluated first, word_count is never negative)
RECURSIVE CountLoop(_, _, _, _)
CountLoop(sample, lo, hi, st) ==
    IF lo > hi THEN st
    ELSE IF lo = hi THEN CountStep(st, sample[lo])
    ELSE LET mid == (lo + hi) \div 2
             left == CountLoop(sample, lo, mid, st)
         IN IF left.word_count >= 0
            THEN CountLoop(sample, mid + 1, hi, left)
            ELSE left

\* variant: the whole text is sampled
SampleLength_WholeText(t) == Len(t)

\* min(text.length(), 500)
SampleLength(t) == IF Len(t) < SampleSize THEN Len(t) ELSE SampleSize

AvgWordLength(t) ==
    LET sample_size == SampleLength(t)
        sample == Substr(t, 0, sample_size)
        word_count == CountLoop(sample, 1, Len(sample),
                                [in_word |-> FALSE, word_count |-> 0]).word_count
    IN IF word_count > 0 THEN (sample_size \div word_count) + 1
       ELSE DefaultWordLength

\* ---- inputs ------------------------------------------------------------

Sizes == -1..MaxSize

\* the worked examples of the documentation
FallbackExample ==
    [text |-> Repeat(<<"a">>, 1000), chunk_size |-> 300, chunk_overlap |-> 50]

ParagraphExample ==
    [text |-> <<"P","a","r","a","1","\n","\n","P","a","r","a","2","\n","\n",
                "P","a","r","a","3">>,
     chunk_size |-> 12, chunk_overlap |-> 0]

Examples == {FallbackExample, ParagraphExample}

WordCounts == -1..MaxWords

\* word-count examples: a whitespace-only text longer than 60 characters and
\* a text longer than the 500-character sample
WordExamples ==
    {[text |-> Repeat(<<" ", " ", "\n">>, 21), words |-> 10, overlap |-> 2],
     [text |-> Repeat(<<" ">>, 3), words |-> 10, overlap |-> 2],
     [text |-> Repeat(<<"a">>, 500) \o Repeat(<<" ", "a">>, 3), words |-> 1, overlap |-> 0]}

Locals ==
    /\ tier = "para"
    /\ splits = <<>>
    /\ idx = 1
    /\ current_chunk = <<>>
    /\ chunks = <<>>
    /\ i = 0
    /\ seeds = <<>>
    /\ tried = <<>>
    /\ produced = "none"

Init ==
    /\ \/ /\ text \in TextsUpTo(Chars, MaxLen)
          /\ chunk_size \in Sizes
          /\ chunk_overlap \in Sizes
       \/ \E e \in Examples :
             /\ text = e.text
             /\ chunk_size = e.chunk_size
             /\ chunk_overlap = e.chunk_overlap
    /\ chunk_size_words = 0
    /\ chunk_overlap_words = 0
    /\ pc = "start"
    /\ Locals

InitWords ==
    /\ \/ /\ text \in TextsUpTo(WordChars, MaxWordLen)
          /\ chunk_size_words \in WordCounts
          /\ chunk_overlap_words \in WordCounts
       \/ \E e \in WordExamples :
             /\ text = e.text
             /\ chunk_size_words = e.words
             /\ chunk_overlap_words = e.overlap
    /\ chunk_size = 0
    /\ chunk_overlap = 0
    /\ pc = "words_start"
    /\ Locals

\* ---- split_text --------------------------------------------------------

\* lines 25-29: a text that already fits is returned as the only chunk
Begin ==
    /\ pc = "start"
    /\ IF ShortCircuit(text, chunk_size)
       THEN /\ chunks' = <<text>>
            /\ produced' = "short"
            /\ pc' = "done"
       ELSE /\ pc' = "split"
            /\ UNCHANGED <<chunks, produced>>
    /\ UNCHANGED <<text, chunk_size, chunk_overlap, chunk_size_words,
                   chunk_overlap_words, tier, splits, idx, current_chunk, i,
                   seeds, tried>>

NextTier(t) == IF t = "para" THEN "split" ELSE "fallback_enter"

\* lines 38-58 (paragraphs) and 92-111 (lines): cut the text, and when a
\* separator was found reserve the buffer; reserve of a negative int, which
\* converts to a size above max_size(), throws std::length_error
SplitStep ==
    /\ pc = "split"
    /\ LET r == SplitTier(text, Sep(tier))
       IN /\ splits' = r.splits
          /\ IF r.has
             THEN /\ pc' = IF chunk_size + chunk_overlap < 0
                           THEN "length_error" ELSE "merge"
                  /\ UNCHANGED <<tier, tried>>
             ELSE /\ pc' = NextTier(tier)
                  /\ tier' = "line"
                  /\ tried' = Append(tried, [tier |-> tier, segments |-> r.splits,
                                             nchunks |-> 0, merged |-> FALSE])
    /\ idx' = 1
    /\ current_chunk' = <<>>
    /\ UNCHANGED <<text, chunk_size, chunk_overlap, chunk_size_words,
                   chunk_overlap_words, chunks, i, seeds, produced>>

\* lines 60-79 and 113-130: one iteration of the merge loop
MergeStep ==
    /\ pc = "merge"
    /\ idx <= Len(splits)
    /\ LET split == splits[idx]
           flush == NeedsFlush(current_chunk, split, Sep(tier), chunk_size)
           seed == IF flush THEN Carry(current_chunk, chunk_overlap)
                   ELSE current_chunk
       IN /\ chunks' = IF flush THEN Append(chunks, current_chunk) ELSE chunks
          /\ seeds' = IF flush
                      THEN Append(seeds, [emitted |-> current_chunk,
                                          carry |-> seed, split |-> split])
                      ELSE seeds
          /\ current_chunk' = Extend(seed, split, Sep(tier))
    /\ idx' = idx + 1
    /\ UNCHANGED <<text, chunk_size, chunk_overlap, chunk_size_words,
                   chunk_overlap_words, pc, tier, splits, i, tried, produced>>

\* lines 81-88 and 132-138: push the last buffer, return when there are chunks
MergeFinish ==
    /\ pc = "merge"
    /\ idx > Len(splits)
    /\ LET out == FinalChunks(chunks, current_chunk)
       IN /\ chunks' = out
          /\ tried' = Append(tried, [tier |-> tier, segments |-> splits,
                                     nchunks |-> Len(out), merged |-> TRUE])
          /\ IF out # <<>>
             THEN /\ pc' = "done"
                  /\ produced' = tier
                  /\ UNCHANGED tier
             ELSE /\ pc' = NextTier(tier)
                  /\ tier' = "line"
                  /\ UNCHANGED produced
    /\ UNCHANGED <<text, chunk_size, chunk_overlap, chunk_size_words,
                   chunk_overlap_words, splits, idx, current_chunk, i, seeds>>

\* lines 141-143: the division by chunk_size - chunk_overlap is undefined
\* when that is 0: the process either traps or goes on into the loop
FallbackEnter ==
    /\ pc = "fallback_enter"
    /\ chunks' = <<>>
    /\ i' = 0
    /\ IF FallbackStride(chunk_size, chunk_overlap) = 0
       THEN pc' \in {"sigfpe", "fallback"}
       ELSE pc' = "fallback"
    /\ UNCHANGED <<text, chunk_size, chunk_overlap, chunk_size_words,
                   chunk_overlap_words, tier, splits, idx, current_chunk,
                   seeds, tried, produced>>

\* lines 145-148: one iteration of the sliding window; with stride 0 the loop
\* never ends, the model follows it for MaxSpin iterations
FallbackStep ==
    /\ pc = "fallback"
    /\ SizeLess(i, Len(text))
    /\ FallbackStride(chunk_size, chunk_overlap) = 0 => Len(chunks) < MaxSpin
    /\ LET end == FallbackEnd(i, chunk_size, text)
       IN chunks' = Append(chunks, Substr(text, i, end - i))
    /\ i' = i + FallbackStride(chunk_size, chunk_overlap)
    /\ UNCHANGED <<text, chunk_size, chunk_overlap, chunk_size_words,
                   chunk_overlap_words, pc, tier, splits, idx, current_chunk,
                   seeds, tried, produced>>

\* line 150
FallbackFinish ==
    /\ pc = "fallback"
    /\ ~SizeLess(i, Len(text))
    /\ pc' = "done"
    /\ produced' = "fallback"
    /\ UNCHANGED <<text, chunk_size, chunk_overlap, chunk_size_words,
                   chunk_overlap_words, tier, splits, idx, current_chunk,
                   chunks, i, seeds, tried>>

\* ---- split_text_with_word_count -----------------------------------------

\* lines 157-181: estimate, convert to characters, call split_text
BeginWords ==
    /\ pc = "words_start"
    /\ LET avg_word_length == AvgWordLength(text)
       IN /\ chunk_size' = chunk_size_words * avg_word_length
          /\ chunk_overlap' = chunk_overlap_words * avg_word_length
    /\ pc' = "start"
    /\ UNCHANGED <<text, chunk_size_words, chunk_overlap_words, tier, splits,
                   idx, current_chunk, chunks, i, seeds, tried, produced>>

Next ==
    \/ Begin
    \/ SplitStep
    \/ MergeStep
    \/ MergeFinish
    \/ FallbackEnter
    \/ FallbackStep
    \/ FallbackFinish

NextWords ==
    \/ BeginWords
    \/ Begin
    \/ SplitStep
    \/ MergeStep
    \/ MergeFinish
    \/ FallbackEnter
    \/ FallbackStep
    \/ FallbackFinish

Spec == Init /\ [][Next]_vars

SpecWords == InitWords /\ [][NextWords]_vars

\* ---- properties --------------------------------------------------------

ValidConfig == chunk_size > 0 /\ chunk_overlap >= 0 /\ chunk_overlap < chunk_size

IsSubstring(s, t) ==
    \E p \in 0..(Len(t) - Len(s)) : SubSeq(t, p + 1, p + Len(s)) = s

IsPrefix(s, t) == Len(s) <= Len(t) /\ SubSeq(t, 1, Len(s)) = s

IsSuffix(s, t) == Len(s) <= Len(t) /\ SubSeq(t, Len(t) - Len(s) + 1, Len(t)) = s

RECURSIVE Join(_, _)
Join(segs, sep) ==
    IF segs = <<>> THEN <<>>
    ELSE IF Len(segs) = 1 THEN segs[1]
    ELSE segs[1] \o sep \o Join(Tail(segs), sep)

HasSeparator(t) == \E k \in 1..Len(t) : t[k] = "\n"

\* C1: a call with chunk_overlap >= chunk_size or chunk_size <= 0 ends in a
\* ConfigError before any processing: it never returns chunks and it never
\* is inside the fixed-width fallback loop.
C1_ConfigErrorBeforeProcessing ==
    (chunk_overlap >= chunk_size \/ chunk_size <= 0)
        => (pc \notin {"done", "fallback"} /\ chunks = <<>>)

\* C2: with a valid config every returned chunk has length <= chunk_size,
\* unless it contains a segment that alone is longer than chunk_size.
C2_BoundedSize ==
    (pc = "done" /\ ValidConfig) =>
        \A k \in 1..Len(chunks) :
            \/ Len(chunks[k]) <= chunk_size
            \/ \E j \in 1..Len(splits) :
                  Len(splits[j]) > chunk_size /\ IsSubstring(splits[j], chunks[k])

\* C3: a text with len(text) <= chunk_size and a valid chunk_overlap is
\* returned as exactly one chunk equal to the text, and neither a separator
\* tier nor the fallback is run.
C3_ShortTextSingleChunk ==
    (Len(text) <= chunk_size /\ chunk_overlap >= 0 /\ chunk_overlap < chunk_size)
        => /\ pc \in {"start", "done"}
           /\ tried = <<>>
           /\ pc = "done" => (chunks = <<text>> /\ produced = "short")

C3_Witness ==
    /\ pc = "done" /\ produced = "short" /\ ValidConfig
    /\ Len(text) = chunk_size /\ HasSeparator(text) /\ chunks = <<text>>

\* C8: the segments a separator tier cuts the text into, joined in order with
\* that separator, are the text again (nothing is dropped, not even a
\* trailing separator).
C8_SplitJoinRoundTrip ==
    (pc = "merge" /\ ValidConfig) => Join(splits, Sep(tier)) = text

\* C10: with a valid config every chunk, from whichever tier, is a contiguous
\* substring of the input text.
C10_ChunksAreSubstrings ==
    ValidConfig => \A k \in 1..Len(chunks) : IsSubstring(chunks[k], text)

C10_Witness ==
    /\ pc = "done" /\ ValidConfig /\ produced \in {"para", "line"}
    /\ Len(chunks) >= 3
    /\ \E k \in 1..Len(seeds) : seeds[k].carry # <<>>
    /\ \E k \in 1..Len(text) : text[k] = "b"

\* the windows the fixed-width tier is documented to produce
FallbackWindows(t, cs, ov) ==
    LET stride == cs - ov
        n == (Len(t) + stride - 1) \div stride
    IN [k \in 1..n |->
          SubSeq(t, (k - 1) * stride + 1,
                 IF (k - 1) * stride + cs < Len(t) THEN (k - 1) * stride + cs
                 ELSE Len(t))]

ChunkLengths == [k \in 1..Len(chunks) |-> Len(chunks[k])]

IsFallbackExample ==
    /\ text = FallbackExample.text
    /\ chunk_size = FallbackExample.chunk_size
    /\ chunk_overlap = FallbackExample.chunk_overlap

\* C4: when the fixed-width tier produces the result under a valid config,
\* the chunks are the windows text[i, min(i + chunk_size, len)) for
\* i = 0, stride, 2*stride, ... < len, in order; a chunk that follows a
\* full-size chunk starts with that chunk's last chunk_overlap characters;
\* 1000 separator-free characters with 300/50 give lengths 300,300,300,250.
C4_FallbackWindows ==
    (pc = "done" /\ produced = "fallback" /\ ValidConfig) =>
        /\ chunks = FallbackWindows(text, chunk_size, chunk_overlap)
        /\ \A k \in 2..Len(chunks) :
              Len(chunks[k - 1]) = chunk_size =>
                  IsPrefix(SubSeq(chunks[k - 1], chunk_size - chunk_overlap + 1,
                                  chunk_size),
                           chunks[k])
        /\ IsFallbackExample => ChunkLengths = <<300, 300, 300, 250>>

C4_Witness ==
    /\ pc = "done" /\ produced = "fallback" /\ ValidConfig
    /\ ~HasSeparator(text) /\ chunk_overlap > 0
    /\ Len(chunks) >= 3 /\ Len(chunks[Len(chunks)]) < chunk_size

IsParagraphExample ==
    /\ text = ParagraphExample.text
    /\ chunk_size = ParagraphExample.chunk_size
    /\ chunk_overlap = ParagraphExample.chunk_overlap

\* C5: for a text longer than chunk_size the tiers are tried in the order
\* paragraph, line, fixed-width; a tier whose split yields fewer than 2
\* segments is not used; a later tier is reached only when the earlier one
\* yielded fewer than 2 segments or merged to zero chunks; the three-paragraph
\* example is split on the paragraph tier.
C5_TierCascade ==
    (pc = "done" /\ ValidConfig /\ produced # "short") =>
        /\ \A k \in 1..Len(tried) :
              /\ tried[k].tier = (IF k = 1 THEN "para" ELSE "line")
              /\ Len(tried[k].segments) < 2 => produced # tried[k].tier
              /\ produced # tried[k].tier =>
                    (Len(tried[k].segments) < 2 \/ tried[k].nchunks = 0)
        /\ produced = "fallback" => Len(tried) = 2
        /\ IsParagraphExample => produced = "para"

\* the average word length as documented
TokenStarts(sample) ==
    {k \in 1..Len(sample) :
        ~IsSpace(sample[k]) /\ (k = 1 \/ IsSpace(sample[k - 1]))}

DocumentedAvg(t) ==
    LET s == IF Len(t) < 500 THEN Len(t) ELSE 500
        n == Cardinality(TokenStarts(SubSeq(t, 1, s)))
    IN IF n = 0 THEN 6 ELSE (s \div n) + 1

OnlyWhitespace(t) == \A k \in 1..Len(t) : IsSpace(t[k])

\* C6: (split_text_with_word_count ends in the call of split_text, so what it
\* returns is what split_text returns on the values of chunk_size and
\* chunk_overlap it computed)
\* chunk_text_by_words(text, w, o) runs chunk_text(text, w * a, o * a)
\* with a = floor(s / n) + 1, s = min(len(text), 500), n = number of token
\* starts in the first s characters, a = 6 when n = 0; for a whitespace-only
\* text, word counts 10 and 2 become 60 and 12 characters.
C6_WordsDelegate ==
    pc # "words_start" =>
        /\ chunk_size = chunk_size_words * DocumentedAvg(text)
        /\ chunk_overlap = chunk_overlap_words * DocumentedAvg(text)
        /\ (OnlyWhitespace(text) /\ chunk_size_words = 10 /\ chunk_overlap_words = 2)
              => (chunk_size = 60 /\ chunk_overlap = 12)

C6_Witness ==
    /\ pc = "done" /\ OnlyWhitespace(text) /\ Len(text) > 60
    /\ chunk_size_words = 10 /\ chunk_overlap_words = 2
    /\ chunk_size = 60 /\ Len(chunks) >= 2

\* C7 as stated: every carry is the trailing chunk_overlap characters of the
\* emitted chunk when that chunk is longer than chunk_overlap and empty
\* otherwise, and each chunk after the first begins with the carry followed by
\* the separator and the next segment.
C7_CarryThenSeparator ==
    ValidConfig =>
        /\ \A k \in 1..Len(seeds) :
              seeds[k].carry =
                  (IF Len(seeds[k].emitted) > chunk_overlap
                   THEN SubSeq(seeds[k].emitted,
                               Len(seeds[k].emitted) - chunk_overlap + 1,
                               Len(seeds[k].emitted))
                   ELSE <<>>)
        /\ (pc = "done" /\ produced \in {"para", "line"}) =>
              \A k \in 2..Len(chunks) :
                  /\ seeds[k - 1].emitted = chunks[k - 1]
                  /\ Len(seeds[k - 1].carry) <= chunk_overlap
                  /\ IsSuffix(seeds[k - 1].carry, chunks[k - 1])
                  /\ IsPrefix(seeds[k - 1].carry \o Sep(produced) \o seeds[k - 1].split,
                              chunks[k])

\* C7 (amended): the carry rule as above, and each chunk after the first
\* begins with the carry, followed by the separator only when the carry is
\* not empty, followed by the next segment.
C7_CarrySeedsNextChunk ==
    ValidConfig =>
        /\ \A k \in 1..Len(seeds) :
              seeds[k].carry =
                  (IF Len(seeds[k].emitted) > chunk_overlap
                   THEN SubSeq(seeds[k].emitted,
                               Len(seeds[k].emitted) - chunk_overlap + 1,
                               Len(seeds[k].emitted))
                   ELSE <<>>)
        /\ (pc = "done" /\ produced \in {"para", "line"}) =>
              \A k \in 2..Len(chunks) :
                  /\ seeds[k - 1].emitted = chunks[k - 1]
                  /\ Len(seeds[k - 1].carry) <= chunk_overlap
                  /\ IsSuffix(seeds[k - 1].carry, chunks[k - 1])
                  /\ IsPrefix(IF seeds[k - 1].carry = <<>>
                              THEN seeds[k - 1].split
                              ELSE seeds[k - 1].carry \o Sep(produced)
                                       \o seeds[k - 1].split,
                              chunks[k])

C7_Witness ==
    /\ pc = "done" /\ ValidConfig /\ produced \in {"para", "line"}
    /\ Len(chunks) >= 3
    /\ \E k \in 1..Len(seeds) : seeds[k].carry # <<>>
    /\ \E k \in 1..Len(seeds) : seeds[k].carry = <<>> /\ seeds[k].split # <<>>

\* C9 as stated: the merger returns no chunk only if it was given no segment.
C9_EmptyOnlyForNoSegments ==
    ValidConfig =>
        \A k \in 1..Len(tried) :
            tried[k].segments # <<>> => tried[k].nchunks > 0

\* C9 (amended): the merger returns no chunk only if every segment it was
\* given is the empty string; a tier with a non-empty segment does not fail
\* over to the next tier.
C9_EmptyOnlyForEmptySegments ==
    /\ \A k \in 1..Len(tried) :
          tried[k].nchunks = 0 =>
              \A j \in 1..Len(tried[k].segments) : tried[k].segments[j] = <<>>
    /\ \A k \in 1..Len(tried) :
          (\E j \in 1..Len(tried[k].segments) : tried[k].segments[j] # <<>>)
              => (k = Len(tried) /\ (pc = "done" => produced = tried[k].tier))

C9_Witness ==
    /\ pc = "done" /\ ValidConfig /\ produced = "fallback" /\ Len(tried) = 2
    /\ tried[1].merged /\ Len(tried[1].segments) >= 2 /\ tried[1].nchunks = 0
    /\ tried[2].merged /\ Len(tried[2].segments) >= 2 /\ tried[2].nchunks = 0

====
